---- MODULE Spec2Model ----
(***************************************************************************)
(* Shifted, semi-nonnegative CP decomposition: the coordinate-descent     *)
(* fitter fit_shift_cp2, its predictor, the random shift search           *)
(* _fit_shift and the degeneracy guard _prevent_zeros of                  *)
(* src/tensortools/cpwarp/shift_cp2.py.                                   *)
(*                                                                         *)
(* Arithmetic.  The code computes in float64.  The model computes on an   *)
(* integer grid: every factor entry is a whole number of quanta of size   *)
(* 1/Unit (and an entry of the tensor, a product of three factor entries, *)
(* a whole number of quanta of size 1/Unit^3), every shift a whole number *)
(* of samples, and a quotient is rounded to the nearest grid point        *)
(* (RDiv).  The updates are homogeneous in these units, so the integers   *)
(* are combined as the code combines the floats.  On the grid the         *)
(* threshold 1e-9 of _prevent_zeros and the ridge 1e-8 of the padded Gram *)
(* matrix lie below one quantum, so |x| > 1e-9 is x # 0.  With            *)
(* whole-sample shifts the interpolation of apply_shift is an exact index *)
(* shift and the Gram matrices are diagonal.                              *)
(*                                                                         *)
(* The modules padded_shifts and periodic_shifts are not part of the      *)
(* source tree at hand; their five operations are modelled from section   *)
(* 4.1 of the specification.                                              *)
(***************************************************************************)
EXTENDS Integers, Sequences, FiniteSets, TLC

VARIABLES
    cfg,        \* the arguments of the call that the fit never writes
    X,          \* observed tensor, N x K x T (imputed in place)
    Xest,       \* estimate buffer, N x K x T
    u, v, w,    \* factors, R x N, R x K, R x T
    u_s, v_s,   \* shifts, R x N, R x K
    loss_hist,  \* list of losses
    itercount,
    converged,
    todo,       \* entries of npr.permutation(rank * 5) not yet visited
    pc,         \* "loop" | "inner" | "par" | "returned", or the name of
                \* the exception that ended the call
    cur,        \* [r, axis] of the prange loop being executed
    wk,         \* the _fit_shift activations of the prange loop, by index
    Ww          \* scratch vector of length T shared by all activations

vars == <<cfg, X, Xest, u, v, w, u_s, v_s, loss_hist, itercount, converged,
          todo, pc, cur, wk, Ww>>

(***************************************************************************)
(* Bounds of the model.                                                    *)
(***************************************************************************)
N == 2          \* X.shape[0]
K == 1          \* X.shape[1]
T == 2          \* X.shape[2]
R == 1          \* u.shape[0], the number of components
MaxIter == 2    \* largest max_iter tried
MaxWarp == 3    \* largest warp_iterations tried
Unit == 2       \* quanta per unit: [0, 1) holds the grid points 0..Unit-1

Ns == 0 .. N - 1
Ks == 0 .. K - 1
Ts == 0 .. T - 1
Rs == 0 .. R - 1

(***************************************************************************)
(* Grid arithmetic.                                                        *)
(***************************************************************************)
Abs(x) == IF x < 0 THEN -x ELSE x

Max(a, b) == IF a > b THEN a ELSE b

\* a / b rounded to the nearest grid point, halves away from zero (b # 0).
RDiv(a, b) ==
    LET q == (2 * Abs(a) + Abs(b)) \div (2 * Abs(b))
    IN  IF (a < 0) = (b < 0) THEN q ELSE -q

\* f[0] + ... + f[n]
RECURSIVE SumTo(_, _)
SumTo(f, n) == IF n < 0 THEN 0 ELSE f[n] + SumTo(f, n - 1)

\* a @ b for vectors of length T
Dot(a, b) == SumTo([t \in Ts |-> a[t] * b[t]], T - 1)

\* floor of the square root
ISqrt(s) == CHOOSE k \in 0 .. s : k * k <= s /\ s < (k + 1) * (k + 1)

ZeroVec == [t \in Ts |-> 0]

(***************************************************************************)
(* Shift operators (specification section 4.1), for whole-sample shifts.  *)
(***************************************************************************)
\* out[t] = profile[t + shift], zero outside [0, T)
padded_apply_shift(x, shift) ==
    [t \in Ts |-> IF t + shift \in Ts THEN x[t + shift] ELSE 0]

\* out[t] = profile[(t + shift) mod T]
periodic_apply_shift(x, shift) ==
    [t \in Ts |-> x[(t + shift) % T]]

apply_shift(periodic, x, shift) ==
    IF periodic THEN periodic_apply_shift(x, shift)
    ELSE padded_apply_shift(x, shift)

\* the adjoint of apply_shift: out[j] = z[j - shift]
padded_trans_shift(z, shift) ==
    [j \in Ts |-> IF j - shift \in Ts THEN z[j - shift] ELSE 0]

periodic_trans_shift(z, shift) ==
    [j \in Ts |-> z[(j - shift) % T]]

\* 2 x T banded form of S'S: row 0 the super-diagonal, row 1 the diagonal
padded_shift_gram(shift) ==
    [b \in 0 .. 1 |->
        [j \in Ts |-> IF b = 1 /\ (j - shift \in Ts) THEN 1 ELSE 0]]

\* (diagonal, off-diagonal) of the circulant S'S
periodic_shift_gram(shift) == <<1, 0>>

\* banded symmetric matrix times vector, a[i-1, i] = WtW[0][i]
sym_bmat_mul(WtW, x) ==
    [i \in Ts |->
        WtW[1][i] * x[i]
        + (IF i >= 1 THEN WtW[0][i] * x[i - 1] ELSE 0)
        + (IF i < T - 1 THEN WtW[0][i + 1] * x[i + 1] ELSE 0)]

\* exact solve of the circulant system; off_d = 0 for whole-sample shifts
rojo_solve(d, off_d, rhs) == [t \in Ts |-> RDiv(rhs[t], d)]

(***************************************************************************)
(* predict (lines 291-317): sum over the components other than skip_dim.  *)
(***************************************************************************)
predict(uu, vv, ww, us, vs, periodic, skip_dim) ==
    [n \in Ns |-> [k \in Ks |-> [t \in Ts |->
        SumTo([r \in Rs |->
                  IF r = skip_dim THEN 0
                  ELSE apply_shift(periodic, ww[r], us[r][n] + vs[r][k])[t]
                       * uu[r][n] * vv[r][k]],
              R - 1)]]]

\* Z = X - Xest
Residual(XX, XE) ==
    [n \in Ns |-> [k \in Ks |-> [t \in Ts |-> XX[n][k][t] - XE[n][k][t]]]]

\* sum of f[n][k] over all pairs
SumNK(f) == SumTo([n \in Ns |-> SumTo(f[n], K - 1)], N - 1)

(***************************************************************************)
(* _prevent_zeros (lines 370-375): x is kept when some entry is above the *)
(* threshold, otherwise it becomes the random draw.                        *)
(***************************************************************************)
NearZero(x) == \A i \in DOMAIN x : ~(Abs(x[i]) > 0)

\* grid points of [0, 1) that np.random.rand returns with nonzero
\* probability density; the single point 0.0 has probability 2^-53
RandVals == 1 .. Unit - 1

\* the draws np.random.rand(x.size) can make when x is reseeded
RandDraws(x) ==
    IF NearZero(x) THEN [DOMAIN x -> RandVals] ELSE {x}

prevent_zeros(x, draw) == IF NearZero(x) THEN draw ELSE x

(***************************************************************************)
(* Axis-0 weights (lines 93-132).                                          *)
(***************************************************************************)
Shifted(r, n, k) == apply_shift(cfg.periodic, w[r], u_s[r][n] + v_s[r][k])

Num0(Z, r, n) ==
    SumTo([k \in Ks |-> v[r][k] * Dot(Z[n][k], Shifted(r, n, k))], K - 1)

Denom0(r, n) ==
    SumTo([k \in Ks |->
              v[r][k] * v[r][k] * Dot(Shifted(r, n, k), Shifted(r, n, k))],
          K - 1)

\* indices whose division raises ZeroDivisionError: the function is compiled
\* by numba.jit(nopython=True), whose error model is Python's
Bad0(r) == {n \in Ns : Denom0(r, n) = 0}

Neg(x) == [i \in DOMAIN x |-> -x[i]]

AllNegative(x) == \A i \in DOMAIN x : x[i] < 0

\* np.maximum(0, x)
Project(x) == [i \in DOMAIN x |-> Max(0, x[i])]

Min(S) == CHOOSE a \in S : \A b \in S : a <= b

Quot0(Z, r) ==
    [n \in Ns |-> IF Denom0(r, n) = 0 THEN u[r][n]
                  ELSE RDiv(Num0(Z, r, n), Denom0(r, n))]

UpdateAxis0(r) ==
    \E XE \in {predict(u, v, w, u_s, v_s, cfg.periodic, r)} :
    \E quot \in {Quot0(Residual(X, XE), r)} :
        /\ Xest' = XE
        /\ IF Bad0(r) # {}
           THEN /\ u' = [u EXCEPT ![r] =
                            [n \in Ns |-> IF n < Min(Bad0(r)) THEN quot[n]
                                          ELSE u[r][n]]]
                /\ pc' = "ZeroDivisionError"
                /\ UNCHANGED w
           ELSE LET flip == AllNegative(quot)
                    uf == IF flip THEN Neg(quot) ELSE quot
                    up == IF cfg.u_nonneg THEN Project(uf) ELSE uf
                IN  /\ \E draw \in RandDraws(up) :
                           u' = [u EXCEPT ![r] = prevent_zeros(up, draw)]
                    /\ w' = [w EXCEPT ![r] = IF flip THEN Neg(w[r]) ELSE w[r]]
                    /\ pc' = "inner"
        /\ UNCHANGED <<v, u_s, v_s, X, loss_hist, itercount, converged,
                       cur, wk, Ww, cfg>>

(***************************************************************************)
(* Axis-1 weights (lines 134-173).                                         *)
(***************************************************************************)
Num1(Z, r, k) ==
    SumTo([n \in Ns |-> u[r][n] * Dot(Z[n][k], Shifted(r, n, k))], N - 1)

Denom1(r, k) ==
    SumTo([n \in Ns |->
              u[r][n] * u[r][n] * Dot(Shifted(r, n, k), Shifted(r, n, k))],
          N - 1)

Bad1(r) == {k \in Ks : Denom1(r, k) = 0}

Quot1(Z, r) ==
    [k \in Ks |-> IF Denom1(r, k) = 0 THEN v[r][k]
                  ELSE RDiv(Num1(Z, r, k), Denom1(r, k))]

UpdateAxis1(r) ==
    \E XE \in {predict(u, v, w, u_s, v_s, cfg.periodic, r)} :
    \E quot \in {Quot1(Residual(X, XE), r)} :
        /\ Xest' = XE
        /\ IF Bad1(r) # {}
           THEN /\ v' = [v EXCEPT ![r] =
                            [k \in Ks |-> IF k < Min(Bad1(r)) THEN quot[k]
                                          ELSE v[r][k]]]
                /\ pc' = "ZeroDivisionError"
                /\ UNCHANGED w
           ELSE LET flip == AllNegative(quot)
                    vf == IF flip THEN Neg(quot) ELSE quot
                    vp == IF cfg.v_nonneg THEN Project(vf) ELSE vf
                IN  /\ \E draw \in RandDraws(vp) :
                           v' = [v EXCEPT ![r] = prevent_zeros(vp, draw)]
                    /\ w' = [w EXCEPT ![r] = IF flip THEN Neg(w[r]) ELSE w[r]]
                    /\ pc' = "inner"
        /\ UNCHANGED <<u, u_s, v_s, X, loss_hist, itercount, converged,
                       cur, wk, Ww, cfg>>

(***************************************************************************)
(* Temporal factor (lines 175-249).                                        *)
(***************************************************************************)
UV(r, n, k) == u[r][n] * v[r][k]

Shift(r, n, k) == u_s[r][n] + v_s[r][k]

\* periodic branch: diagonal and off-diagonal of the Gram matrix, and rhs
GramD(r) ==
    SumNK([n \in Ns |-> [k \in Ks |->
        UV(r, n, k) * UV(r, n, k) * periodic_shift_gram(Shift(r, n, k))[1]]])

GramOffD(r) ==
    SumNK([n \in Ns |-> [k \in Ks |->
        UV(r, n, k) * UV(r, n, k) * periodic_shift_gram(Shift(r, n, k))[2]]])

PeriodicRhs(Z, r) ==
    [t \in Ts |->
        SumNK([n \in Ns |-> [k \in Ks |->
            UV(r, n, k) * periodic_trans_shift(Z[n][k], Shift(r, n, k))[t]]])]

\* padded branch: banded Gram matrix (the ridge 1e-8 is below one quantum)
PaddedWtW(r) ==
    [b \in 0 .. 1 |-> [t \in Ts |->
        SumNK([n \in Ns |-> [k \in Ks |->
            UV(r, n, k) * UV(r, n, k)
            * padded_shift_gram(Shift(r, n, k))[b][t]]])]]

PaddedRhs(Z, r) ==
    [t \in Ts |->
        SumNK([n \in Ns |-> [k \in Ks |->
            UV(r, n, k) * padded_trans_shift(Z[n][k], Shift(r, n, k))[t]]])]

\* Gershgorin bound over the rows 1 .. i, starting from L
RECURSIVE Gershgorin(_, _, _)
Gershgorin(WtW, i, L) ==
    IF i > T - 2 THEN L
    ELSE Gershgorin(WtW, i + 1,
                    Max(L, WtW[1][i] + WtW[0][i] + WtW[0][i + 1]))

Lipschitz(WtW) ==
    Gershgorin(WtW, 1,
               Max(WtW[1][0] + WtW[0][1], WtW[1][T - 1] + WtW[0][T - 1]))

GradIters == 10

\* one projected gradient step with step size 0.95 / L
GradStep(WtW, rhs, L, x) ==
    LET ug == sym_bmat_mul(WtW, x)
    IN  [t \in Ts |-> Max(0, x[t] - RDiv(95 * (ug[t] - rhs[t]), 100 * L))]

RECURSIVE GradDescent(_, _, _, _, _)
GradDescent(WtW, rhs, L, x, itr) ==
    IF itr = 0 THEN x
    ELSE CHOOSE res \in {GradDescent(WtW, rhs, L, y, itr - 1) :
                            y \in {GradStep(WtW, rhs, L, x)}} : TRUE

\* L = 0 on the grid is L = 1e-8 in the code: the Gram matrix is the ridge
\* alone, rhs is zero, and ten steps scale w[r] by 0.05^10, below one quantum
PaddedSolve(Z, r) ==
    CHOOSE res \in
        {IF Lipschitz(WtW) = 0 THEN ZeroVec
         ELSE GradDescent(WtW, rhs, Lipschitz(WtW), w[r], GradIters) :
            WtW \in {PaddedWtW(r)}, rhs \in {PaddedRhs(Z, r)}} : TRUE

UpdateTemporal(r) ==
    \E XE \in {predict(u, v, w, u_s, v_s, cfg.periodic, r)} :
    \E Z \in {Residual(X, XE)} :
        /\ Xest' = XE
        /\ IF cfg.periodic
           THEN IF GramD(r) = 0
                THEN pc' = "ZeroDivisionError" /\ UNCHANGED w
                ELSE /\ w' = [w EXCEPT ![r] =
                                 rojo_solve(GramD(r), GramOffD(r),
                                            PeriodicRhs(Z, r))]
                     /\ pc' = "inner"
           ELSE /\ w' = [w EXCEPT ![r] = PaddedSolve(Z, r)]
                /\ pc' = "inner"
        /\ UNCHANGED <<u, v, u_s, v_s, X, loss_hist, itercount, converged,
                       cur, wk, Ww, cfg>>

(***************************************************************************)
(* _fit_shift (lines 320-368) as a function of its arguments and of the   *)
(* candidates it evaluates, cands[1] being init_shift and the others the  *)
(* draws of npr.uniform(-max_shift, max_shift).  a is the record of the   *)
(* arguments Z (M x T), y, f, f_s, w, periodic.                            *)
(***************************************************************************)
Rows(a) == DOMAIN a.Z

\* the loss of row m for shift s, with the scratch vector holding sc
RowLoss(a, m, sc) ==
    LET yf == a.y * a.f[m]
    IN  SumTo([t \in Ts |-> (a.Z[m][t] - yf * sc[t]) * (a.Z[m][t] - yf * sc[t])],
              T - 1)

OwnScratch(a, s, m) == apply_shift(a.periodic, a.w, s + a.f_s[m])

\* the row loop with its early break against the best loss so far
RECURSIVE RowsFrom(_, _, _, _, _, _)
RowsFrom(a, s, m, loss, has_best, best_loss) ==
    IF m \notin Rows(a) THEN loss
    ELSE CHOOSE res \in
             {IF has_best /\ l2 > best_loss THEN l2
              ELSE RowsFrom(a, s, m + 1, l2, has_best, best_loss) :
                 l2 \in {loss + RowLoss(a, m, OwnScratch(a, s, m))}} : TRUE

\* a comparison that let a later candidate of equal loss win
ImprovesOrTies(loss, has_best, best_loss) ==
    ~has_best \/ loss <= best_loss

\* "if loss < best_loss" with best_loss = inf before the first candidate
Improves(loss, has_best, best_loss) == ~has_best \/ loss < best_loss

RECURSIVE CandLoop(_, _, _, _, _, _)
CandLoop(a, cands, i, has_best, best_loss, best_shift) ==
    IF i > Len(cands) THEN best_shift
    ELSE CHOOSE res \in
             {IF Improves(loss, has_best, best_loss)
              THEN CandLoop(a, cands, i + 1, TRUE, loss, cands[i])
              ELSE CandLoop(a, cands, i + 1, has_best, best_loss, best_shift) :
                 loss \in {RowsFrom(a, cands[i], 0, 0, has_best, best_loss)}} :
             TRUE

fit_shift(a, cands) == CandLoop(a, cands, 1, FALSE, 0, 0)

\* the values npr.uniform(-max_shift, max_shift) takes on the grid
CandSet(max_shift) == -Abs(max_shift) .. Abs(max_shift)

\* the sequences of n_iter - 1 draws
DrawSeqs(max_shift, n_iter) ==
    IF n_iter <= 1 THEN {<<>>}
    ELSE [1 .. n_iter - 1 -> CandSet(max_shift)]

\* the candidate sequences of one call
CandSeqs(init_shift, max_shift, n_iter) ==
    IF n_iter <= 0 THEN {<<>>}
    ELSE {<<init_shift>> \o d : d \in DrawSeqs(max_shift, n_iter)}

\* arguments of the call for index n of axis 0 and index k of axis 1
Args0(Z, r, n) ==
    [Z |-> [m \in Ks |-> Z[n][m]], y |-> u[r][n], f |-> v[r], f_s |-> v_s[r],
     w |-> w[r], periodic |-> cfg.periodic]

Args1(Z, r, k) ==
    [Z |-> [m \in Ns |-> Z[m][k]], y |-> v[r][k], f |-> u[r], f_s |-> u_s[r],
     w |-> w[r], periodic |-> cfg.periodic]

(***************************************************************************)
(* Shift updates (lines 251-265).  The body of a prange loop runs on      *)
(* worker threads that all receive the one scratch vector Ww.  The fitter *)
(* specification Spec takes a whole prange loop as one step: an index     *)
(* that runs alone returns what _fit_shift computes, and an index that    *)
(* runs beside others returns one of the candidates it evaluated,         *)
(* whichever the contents of the shared scratch vector make win.  SpecPar *)
(* below refines the loop into the steps of its workers.                  *)
(***************************************************************************)
\* a loop that searched the shifts from the first pass on
ShiftsEnabledAlways(ic) == ic >= 0

\* "(q == 3) and (itercount > 0)"
ShiftsEnabled(ic) == ic > 0

ShiftOutcomes(a, init_shift, max_shift, n_iter, alone) ==
    IF alone
    THEN {fit_shift(a, c) : c \in CandSeqs(init_shift, max_shift, n_iter)}
    ELSE IF n_iter <= 0 THEN {0}
         ELSE {init_shift}
              \cup (IF n_iter >= 2 THEN CandSet(max_shift) ELSE {})

\* every value a shift can take
ShiftVals(old, max_shift) ==
    {old[i] : i \in DOMAIN old} \cup CandSet(max_shift) \cup {0}

\* "max_shift_axis0 * T": the bound is tried at whole numbers of samples,
\* and the record of the call holds the product
MaxShift0 == cfg.max_shift_axis0_T

MaxShift1 == cfg.max_shift_axis1_T

Outcomes0(Z, r) ==
    [n \in Ns |-> ShiftOutcomes(Args0(Z, r, n), u_s[r][n],
                                MaxShift0,
                                cfg.warp_iterations, N = 1)]

Outcomes1(Z, r) ==
    [k \in Ks |-> ShiftOutcomes(Args1(Z, r, k), v_s[r][k],
                                MaxShift1,
                                cfg.warp_iterations, K = 1)]

UpdateShift0(r) ==
    /\ ShiftsEnabled(itercount)
    /\ \E XE \in {predict(u, v, w, u_s, v_s, cfg.periodic, r)} :
      \E out \in {Outcomes0(Residual(X, XE), r)} :
        /\ Xest' = XE
        /\ \E new \in [Ns -> ShiftVals(u_s[r], MaxShift0)] :
              /\ \A n \in Ns : new[n] \in out[n]
              /\ u_s' = [u_s EXCEPT ![r] = new]
        /\ pc' = "inner"
        /\ UNCHANGED <<u, v, w, v_s, X, loss_hist, itercount, converged,
                       cur, wk, Ww, cfg>>

UpdateShift1(r) ==
    /\ ShiftsEnabled(itercount)
    /\ \E XE \in {predict(u, v, w, u_s, v_s, cfg.periodic, r)} :
      \E out \in {Outcomes1(Residual(X, XE), r)} :
        /\ Xest' = XE
        /\ \E new \in [Ks -> ShiftVals(v_s[r], MaxShift1)] :
              /\ \A k \in Ks : new[k] \in out[k]
              /\ v_s' = [v_s EXCEPT ![r] = new]
        /\ pc' = "inner"
        /\ UNCHANGED <<u, v, w, u_s, X, loss_hist, itercount, converged,
                       cur, wk, Ww, cfg>>

\* a shift group visited while the shifts are not yet updated: only the
\* residual is recomputed
SkipShift(r) ==
    /\ ~ShiftsEnabled(itercount)
    /\ Xest' = predict(u, v, w, u_s, v_s, cfg.periodic, r)
    /\ pc' = "inner"
    /\ UNCHANGED <<u, v, w, u_s, v_s, X, loss_hist, itercount, converged,
                   cur, wk, Ww, cfg>>

(***************************************************************************)
(* The outer loop (lines 46-72 and 267-288).                               *)
(***************************************************************************)
Cells == Ns \X Ks \X Ts

\* "mask.size == (N * K * T)"
Masked == Cardinality(DOMAIN cfg.mask) = N * K * T

\* an imputation that overwrote the observed cells instead
ImputeObserved(XX, XE) ==
    IF Masked
    THEN [n \in Ns |-> [k \in Ks |-> [t \in Ts |->
             IF cfg.mask[<<n, k, t>>] THEN XE[n][k][t] ELSE XX[n][k][t]]]]
    ELSE XX

\* lines 272-277
Impute(XX, XE) ==
    IF Masked
    THEN [n \in Ns |-> [k \in Ks |-> [t \in Ts |->
             IF ~cfg.mask[<<n, k, t>>] THEN XE[n][k][t] ELSE XX[n][k][t]]]]
    ELSE XX

\* np.linalg.norm((X - Xest).ravel()) / Xnorm
Loss(XX, XE) ==
    LET sq == [n \in Ns |-> SumTo([k \in Ks |->
                  SumTo([t \in Ts |-> (XX[n][k][t] - XE[n][k][t])
                                      * (XX[n][k][t] - XE[n][k][t])], T - 1)],
                  K - 1)]
    IN  RDiv(ISqrt(SumTo(sq, N - 1)), cfg.Xnorm)

\* "min_iter = max(patience, min_iter)"
MinIter == Max(cfg.patience, cfg.min_iter)

\* position in 1 .. len of the list element a Python index i names
PyIndex(len, i) == IF i < 0 THEN len + i + 1 ELSE i + 1

\* "while (itercount < max_iter) and not converged"
LoopGuard == itercount < cfg.max_iter /\ ~converged

\* npr.permutation(rank * 5): the entries are visited in any order
EnterIteration ==
    /\ pc = "loop"
    /\ LoopGuard
    /\ todo' = 0 .. cfg.rank * 5 - 1
    /\ pc' = "inner"
    /\ UNCHANGED <<cfg, X, Xest, u, v, w, u_s, v_s, loss_hist, itercount,
                   converged, cur, wk, Ww>>

Return ==
    /\ pc = "loop"
    /\ ~LoopGuard
    /\ pc' = "returned"
    /\ UNCHANGED <<cfg, X, Xest, u, v, w, u_s, v_s, loss_hist, itercount,
                   converged, todo, cur, wk, Ww>>

\* "for z in npr.permutation(rank * 5)": the entries with q = z % 5 that
\* the pass has still to visit
Pending(q) == {z \in todo : pc = "inner" /\ z % 5 = q}

\* entry z is taken
Take(z) == todo' = todo \ {z}

VisitAxis0 == \E z \in Pending(0) : Take(z) /\ UpdateAxis0(z \div 5)

VisitAxis1 == \E z \in Pending(1) : Take(z) /\ UpdateAxis1(z \div 5)

VisitTemporal == \E z \in Pending(2) : Take(z) /\ UpdateTemporal(z \div 5)

VisitShift0 == \E z \in Pending(3) : Take(z) /\ UpdateShift0(z \div 5)

VisitShift1 == \E z \in Pending(4) : Take(z) /\ UpdateShift1(z \div 5)

VisitFrozen0 == \E z \in Pending(3) : Take(z) /\ SkipShift(z \div 5)

VisitFrozen1 == \E z \in Pending(4) : Take(z) /\ SkipShift(z \div 5)

\* lines 267-286
EndIteration ==
    /\ pc = "inner"
    /\ todo = {}
    /\ \E XE \in {predict(u, v, w, u_s, v_s, cfg.periodic, -1)} :
       \E XI \in {Impute(X, XE)} :
       \E lh \in {Append(loss_hist, Loss(XI, XE))} :
       LET ic == itercount + 1
           pos == PyIndex(Len(lh), -cfg.patience)
       IN  /\ Xest' = XE
           /\ X' = XI
           /\ itercount' = ic
           /\ loss_hist' = lh
           /\ IF ic > MinIter
              THEN IF pos \in 1 .. Len(lh)
                   THEN /\ converged' = (Abs(lh[pos] - lh[Len(lh)]) < cfg.tol)
                        /\ pc' = "loop"
                   ELSE /\ pc' = "IndexError"
                        /\ UNCHANGED converged
              ELSE /\ pc' = "loop"
                   /\ UNCHANGED converged
    /\ UNCHANGED <<cfg, u, v, w, u_s, v_s, todo, cur, wk, Ww>>

(***************************************************************************)
(* The calls of fit_shift_cp2 that are tried.                              *)
(***************************************************************************)
\* data: a pulse of height amp per (n, k), row n delayed by n * delay
Pulse(amp, delay) ==
    [n \in Ns |-> [k \in Ks |-> [t \in Ts |->
        IF t = (n * delay) % T THEN amp ELSE 0]]]

XSet == {Pulse(amp, delay) : amp \in {-1, 0, 1}, delay \in {0, 1}}

NoMask == <<>>

\* masks of the shape of X with at most one missing cell
MaskSet ==
    {NoMask}
    \cup {[c \in Cells |-> c # <<n, 0, t>>] : n \in {0, N - 1}, t \in {0, T - 1}}

Const(S, val) == [r \in Rs |-> [i \in S |-> val]]

Ramp(S, val) == [r \in Rs |-> [i \in S |-> i * val]]

Call(X0, mk, us0, vs0, rk, mi, mx, warp, ms0, ms1, un, vn, per, pat) ==
    [X |-> X0, mask |-> mk, u |-> Const(Ns, 1), v |-> Const(Ks, 1),
     w |-> [r \in Rs |-> [t \in Ts |-> IF t = 0 THEN 2 ELSE 1]],
     u_s |-> us0, v_s |-> vs0, rank |-> rk, min_iter |-> mi,
     max_iter |-> mx, tol |-> 1, warp_iterations |-> warp,
     max_shift_axis0_T |-> ms0, max_shift_axis1_T |-> ms1, u_nonneg |-> un,
     v_nonneg |-> vn, periodic |-> per, patience |-> pat, Xnorm |-> 1]

Z0 == Const(Ns, 0)

Z1 == Const(Ks, 0)

\* data, boundary mode and mask
CallsData ==
    {Call(X0, m, Z0, Z1, 1, 0, MaxIter, 1, 1, 1, TRUE, TRUE, per, 1) :
        X0 \in XSet, m \in MaskSet, per \in BOOLEAN}

\* iteration control
CallsIter ==
    {Call(Pulse(1, 1), NoMask, Z0, Z1, 1, mi, mx, 1, 1, 1, TRUE, TRUE,
          per, pat) :
        mi \in {0, 1}, mx \in 0 .. MaxIter, pat \in -1 .. 2, per \in BOOLEAN}

\* the number of components that are updated
CallsRank ==
    {Call(Pulse(1, 1), NoMask, Z0, Z1, rank, 0, 1, 1, 1, 1, TRUE, TRUE,
          per, 1) :
        rank \in -1 .. R, per \in BOOLEAN}

\* shift search: initial shifts, bounds and number of candidates, over the
\* pass that leaves the shifts alone and one pass that searches
CallsShift ==
    {Call(Pulse(1, 1), NoMask, us0, Z1, 1, 0, 2, warp, ms, ms,
          TRUE, TRUE, per, 1) :
        us0 \in {Ramp(Ns, 1), Const(Ns, T + 1)}, warp \in {0, 1, MaxWarp},
        ms \in {0, 1}, per \in BOOLEAN}

\* sign constraints
CallsSign ==
    {Call(X0, NoMask, Z0, Z1, 1, 0, MaxIter, 1, 1, 1, un, vn, per, 1) :
        X0 \in XSet, un \in BOOLEAN, vn \in BOOLEAN, per \in BOOLEAN}

Calls == CallsData \cup CallsIter \cup CallsRank \cup CallsShift \cup CallsSign

ConfigOf(c) ==
    [rank |-> c.rank, min_iter |-> c.min_iter, max_iter |-> c.max_iter,
     tol |-> c.tol, warp_iterations |-> c.warp_iterations,
     max_shift_axis0_T |-> c.max_shift_axis0_T,
     max_shift_axis1_T |-> c.max_shift_axis1_T, u_nonneg |-> c.u_nonneg,
     v_nonneg |-> c.v_nonneg, periodic |-> c.periodic,
     patience |-> c.patience, mask |-> c.mask, Xnorm |-> c.Xnorm,
     u_s |-> c.u_s, v_s |-> c.v_s, X |-> c.X]

\* the state on reaching the main loop (lines 46-70); Xest and Ww are
\* np.empty buffers that are filled before they are read
Entry(c) ==
    /\ cfg = ConfigOf(c)
    /\ X = c.X
    /\ Xest = [n \in Ns |-> [k \in Ks |-> ZeroVec]]
    /\ u = c.u
    /\ v = c.v
    /\ w = c.w
    /\ u_s = c.u_s
    /\ v_s = c.v_s
    /\ loss_hist = <<>>
    /\ itercount = 0
    /\ converged = FALSE
    /\ todo = {}
    /\ pc = "loop"
    /\ cur = [r |-> 0, axis |-> 0]
    /\ wk = <<>>
    /\ Ww = ZeroVec

Init == \E c \in Calls : Entry(c)

Next ==
    \/ EnterIteration
    \/ VisitAxis0
    \/ VisitAxis1
    \/ VisitTemporal
    \/ VisitFrozen0
    \/ VisitFrozen1
    \/ VisitShift0
    \/ VisitShift1
    \/ EndIteration
    \/ Return

Spec == Init /\ [][Next]_vars

(***************************************************************************)
(* The prange loops of lines 253-257 and 261-265, worker by worker.  Each *)
(* index runs one activation of _fit_shift (lines 331-368); all of them   *)
(* are handed the same scratch vector Ww.  An activation takes a step     *)
(* when it stores a shifted profile into Ww (lines 348-351), when it      *)
(* reads Ww back to add a row to its loss and acts on the result (lines   *)
(* 354-366, with the draw of the next candidate, line 341), and when it   *)
(* returns and its result is stored (lines 254 and 262).                  *)
(***************************************************************************)
Fresh(seed, n_iter) ==
    [i |-> 0, m |-> 0, ph |-> IF n_iter <= 0 THEN "ret" ELSE "apply",
     s |-> seed, loss |-> 0, has_best |-> FALSE, best_loss |-> 0,
     best_shift |-> 0, init_shift |-> seed,
     cands |-> IF n_iter <= 0 THEN <<>> ELSE <<seed>>, cut |-> FALSE]

ArgsOf(idx) ==
    IF cur.axis = 0 THEN Args0(Residual(X, Xest), cur.r, idx)
    ELSE Args1(Residual(X, Xest), cur.r, idx)

ParMaxShift == IF cur.axis = 0 THEN MaxShift0 ELSE MaxShift1

SpawnShift0(r) ==
    /\ ShiftsEnabled(itercount)
    /\ Xest' = predict(u, v, w, u_s, v_s, cfg.periodic, r)
    /\ wk' = [n \in Ns |-> Fresh(u_s[r][n], cfg.warp_iterations)]
    /\ cur' = [r |-> r, axis |-> 0]
    /\ pc' = "par"
    /\ UNCHANGED <<u, v, w, u_s, v_s, X, loss_hist, itercount, converged,
                   Ww, cfg>>

SpawnShift1(r) ==
    /\ ShiftsEnabled(itercount)
    /\ Xest' = predict(u, v, w, u_s, v_s, cfg.periodic, r)
    /\ wk' = [k \in Ks |-> Fresh(v_s[r][k], cfg.warp_iterations)]
    /\ cur' = [r |-> r, axis |-> 1]
    /\ pc' = "par"
    /\ UNCHANGED <<u, v, w, u_s, v_s, X, loss_hist, itercount, converged,
                   Ww, cfg>>

VisitSpawn0 == \E z \in Pending(3) : Take(z) /\ SpawnShift0(z \div 5)

VisitSpawn1 == \E z \in Pending(4) : Take(z) /\ SpawnShift1(z \div 5)

\* lines 348-351: the shifted profile goes to the shared scratch vector
WorkerApply ==
    /\ pc = "par"
    /\ \E i \in DOMAIN wk :
          /\ wk[i].ph = "apply"
          /\ Ww' = OwnScratch(ArgsOf(i), wk[i].s, wk[i].m)
          /\ wk' = [wk EXCEPT ![i].ph = "accum"]
    /\ UNCHANGED <<cfg, X, Xest, u, v, w, u_s, v_s, loss_hist, itercount,
                   converged, todo, pc, cur>>

\* the activation after its candidate ended with the given loss
Saved(k, loss) ==
    IF Improves(loss, k.has_best, k.best_loss)
    THEN [k EXCEPT !.has_best = TRUE, !.best_loss = loss, !.best_shift = k.s]
    ELSE k

\* lines 354-366: the row's loss is read off the scratch vector; the
\* candidate ends on the break or after the last row
WorkerAccum ==
    /\ pc = "par"
    /\ \E i \in DOMAIN wk :
          /\ wk[i].ph = "accum"
          /\ \E a \in {ArgsOf(i)} :
             \E l2 \in {wk[i].loss + RowLoss(a, wk[i].m, Ww)} :
             LET k == wk[i]
                 break == k.has_best /\ l2 > k.best_loss
                 last == k.m + 1 \notin Rows(a)
                 kc == [k EXCEPT !.cut = k.cut \/ (break /\ ~last)]
             IN  IF ~break /\ ~last
                 THEN wk' = [wk EXCEPT ![i] =
                                [k EXCEPT !.m = k.m + 1, !.loss = l2,
                                          !.ph = "apply"]]
                 ELSE IF k.i + 1 < cfg.warp_iterations
                      THEN \E s2 \in CandSet(ParMaxShift) :
                              wk' = [wk EXCEPT ![i] =
                                        [Saved(kc, l2) EXCEPT
                                            !.i = k.i + 1, !.m = 0,
                                            !.loss = 0, !.s = s2,
                                            !.ph = "apply",
                                            !.cands = Append(k.cands, s2)]]
                      ELSE wk' = [wk EXCEPT ![i] =
                                     [Saved(kc, l2) EXCEPT !.ph = "ret"]]
    /\ UNCHANGED <<cfg, X, Xest, u, v, w, u_s, v_s, loss_hist, itercount,
                   converged, todo, pc, cur, Ww>>

\* lines 254 and 262: the returned shift is stored at the worker's index
WorkerReturn ==
    /\ pc = "par"
    /\ \E i \in DOMAIN wk :
          /\ wk[i].ph = "ret"
          /\ wk' = [wk EXCEPT ![i].ph = "done"]
          /\ IF cur.axis = 0
             THEN /\ u_s' = [u_s EXCEPT ![cur.r][i] = wk[i].best_shift]
                  /\ UNCHANGED v_s
             ELSE /\ v_s' = [v_s EXCEPT ![cur.r][i] = wk[i].best_shift]
                  /\ UNCHANGED u_s
    /\ UNCHANGED <<cfg, X, Xest, u, v, w, loss_hist, itercount, converged,
                   todo, pc, cur, Ww>>

\* the end of the prange loop
Join ==
    /\ pc = "par"
    /\ \A i \in DOMAIN wk : wk[i].ph = "done"
    /\ pc' = "inner"
    /\ wk' = <<>>
    /\ UNCHANGED <<cfg, X, Xest, u, v, w, u_s, v_s, loss_hist, itercount,
                   converged, todo, cur, Ww>>

\* calls whose second pass searches the shifts of differently shifted rows,
\* from initial shifts inside and outside the bound
CallsPar ==
    {Call(Pulse(amp, 1), NoMask, us0, Z1, 1, 0, 2, MaxWarp, 1, 1, TRUE, TRUE,
          per, 1) :
        amp \in {1, 2}, us0 \in {Z0, Ramp(Ns, 1), Const(Ns, T + 1)},
        per \in BOOLEAN}

InitPar == \E c \in CallsPar : Entry(c)

NextPar ==
    \/ EnterIteration
    \/ VisitAxis0
    \/ VisitAxis1
    \/ VisitTemporal
    \/ VisitFrozen0
    \/ VisitFrozen1
    \/ VisitSpawn0
    \/ VisitSpawn1
    \/ WorkerApply
    \/ WorkerAccum
    \/ WorkerReturn
    \/ Join
    \/ EndIteration
    \/ Return

SpecPar == InitPar /\ [][NextPar]_vars

(***************************************************************************)
(* One activation of _fit_shift on its own: the arguments are drawn from  *)
(* bounded sets and the activation owns the scratch vector.               *)
(***************************************************************************)
\* residual blocks: a pulse of height a on a floor b, row n delayed by n * d
ShiftData ==
    {[n \in Ns |-> [k \in Ks |-> [t \in Ts |->
         IF t = (p + n * d) % T THEN a ELSE b]]] :
        a \in {1, 2}, b \in {0, 1}, p \in {0, 1}, d \in {0, 1}}

CallsFit ==
    {Call(X0, NoMask, us0, vs0, 1, 0, 2, warp, 1, 1, TRUE, TRUE, per, 1) :
        X0 \in ShiftData, us0 \in {Z0, Ramp(Ns, 1), Const(Ns, -1)},
        vs0 \in {Z1, Const(Ks, 1)}, warp \in 1 .. MaxWarp, per \in BOOLEAN}

InitShift ==
    \E c \in CallsFit, axis \in {0, 1}, y \in {1, 2} :
        /\ cfg = ConfigOf(c)
        /\ X = c.X
        /\ Xest = [n \in Ns |-> [k \in Ks |-> ZeroVec]]
        /\ u = Const(Ns, y)
        /\ v = c.v
        /\ w = c.w
        /\ u_s = c.u_s
        /\ v_s = c.v_s
        /\ loss_hist = <<0>>
        /\ itercount = 1
        /\ converged = FALSE
        /\ todo = {}
        /\ pc = "par"
        /\ cur = [r |-> 0, axis |-> axis]
        /\ wk = [i \in {0} |->
                    Fresh(IF axis = 0 THEN c.u_s[0][0] ELSE c.v_s[0][0],
                          c.warp_iterations)]
        /\ Ww = ZeroVec

NextShift ==
    \/ WorkerApply
    \/ WorkerAccum
    \/ WorkerReturn

SpecShift == InitShift /\ [][NextShift]_vars

(***************************************************************************)
(* Properties.                                                             *)
(***************************************************************************)
Raised == pc \in {"ZeroDivisionError", "IndexError"}

\* an outer iteration has just ended, or the call has returned after one
AtIterationEnd == pc \in {"loop", "returned"} /\ itercount >= 1

\* the components the loop updates
Updated == {r \in Rs : r < cfg.rank}

\* group q of component r has been visited in the pass under way, or a pass
\* has been completed
Visited(r, q) ==
    \/ pc \in {"inner", "par"} /\ (5 * r + q) \notin todo
    \/ AtIterationEnd

\* C1: at the end of every outer iteration every axis-0 shift is within
\* max_shift_axis0 * T and every axis-1 shift within max_shift_axis1 * T in
\* absolute value, and so is every value a shift search returns, the seed
\* included.
C1_ShiftsWithinBound ==
    /\ AtIterationEnd =>
          /\ \A r \in Rs, n \in Ns : Abs(u_s[r][n]) <= MaxShift0
          /\ \A r \in Rs, k \in Ks : Abs(v_s[r][k]) <= MaxShift1
    /\ pc = "par" =>
          \A i \in DOMAIN wk :
              wk[i].ph \in {"ret", "done"}
                  => Abs(wk[i].best_shift) <= ParMaxShift

\* C2: at the end of every outer iteration every entry of w is nonnegative,
\* in both boundary modes, and so is every entry of u when u_nonneg is set
\* and of v when v_nonneg is set.
C2_Nonnegative ==
    AtIterationEnd =>
        /\ \A r \in Rs, t \in Ts : w[r][t] >= 0
        /\ cfg.u_nonneg => \A r \in Rs, n \in Ns : u[r][n] >= 0
        /\ cfg.v_nonneg => \A r \in Rs, k \in Ks : v[r][k] >= 0

\* C3: the fit never ends in an exception; it runs at most max_iter outer
\* iterations, the loss history has one entry per completed iteration, and
\* it returns only once it has converged or max_iter iterations are done.
C3_Terminates ==
    /\ ~Raised
    /\ Len(loss_hist) = itercount
    /\ itercount <= Max(0, cfg.max_iter)
    /\ pc = "returned" => converged \/ itercount >= cfg.max_iter

\* C4: convergence is never declared before max(patience, min_iter)
\* iterations are done nor before two iterations are done; after that it is
\* declared exactly when loss_hist[-patience] and loss_hist[-1] differ by
\* less than tol, and both entries exist whatever patience, min_iter and
\* max_iter are.
C4_ConvergenceGate ==
    /\ converged => itercount > MinIter /\ itercount >= 2
    /\ pc # "IndexError"
    /\ (pc = "loop" /\ itercount >= 1 /\ itercount > MinIter) =>
          LET len == Len(loss_hist)
              pos == PyIndex(len, -cfg.patience)
          IN  /\ pos \in 1 .. len
              /\ converged = (Abs(loss_hist[pos] - loss_hist[len]) < cfg.tol)

\* the loss of a candidate summed over every row, with no early exit
FullLoss(a, s) == RowsFrom(a, s, 0, 0, FALSE, 0)

\* res is the candidate of least full loss, the first of them in the order
\* of evaluation
FirstBest(a, cands, res) ==
    \E i \in 1 .. Len(cands) :
        /\ cands[i] = res
        /\ \A j \in 1 .. Len(cands) :
              /\ FullLoss(a, cands[i]) <= FullLoss(a, cands[j])
              /\ j < i => FullLoss(a, cands[j]) > FullLoss(a, cands[i])

\* C5: with warp_iterations >= 1, _fit_shift evaluates warp_iterations
\* candidates of which the first is the seed and returns the one whose loss
\* over all rows is least, the earliest on a tie: leaving a candidate early
\* never changes the result.
C5_ReturnsFirstBest ==
    \A i \in DOMAIN wk :
        wk[i].ph \in {"ret", "done"} =>
            /\ Len(wk[i].cands) = cfg.warp_iterations
            /\ wk[i].cands[1] = wk[i].init_shift
            /\ FirstBest(ArgsOf(i), wk[i].cands, wk[i].best_shift)
            /\ wk[i].ph = "done" =>
                  wk[i].best_shift = (IF cur.axis = 0 THEN u_s[cur.r][i]
                                      ELSE v_s[cur.r][i])

\* an activation has returned a candidate other than its seed after leaving
\* some candidate early
C5_Witness ==
    \E i \in DOMAIN wk :
        /\ wk[i].ph = "done"
        /\ wk[i].cut
        /\ Len(wk[i].cands) >= 2
        /\ wk[i].best_shift # wk[i].init_shift

\* the observed cells: all of them when no mask of the shape of X is given
Observed == {c \in Cells : ~Masked \/ cfg.mask[c]}

At(A, c) == A[c[1]][c[2]][c[3]]

\* C6: the data tensor is written only at the end of an outer iteration;
\* its observed cells always hold the caller's values (all cells when no
\* mask of the shape of X is given), and right after an iteration its
\* unobserved cells hold the current full estimate.
C6_ImputationFrame ==
    /\ [](\A c \in Observed : At(X, c) = At(cfg.X, c))
    /\ [](pc = "loop" /\ itercount >= 1
             => \A c \in Cells \ Observed : At(X, c) = At(Xest, c))
    /\ [][X' # X => pc = "inner" /\ todo = {}
                    /\ itercount' = itercount + 1]_vars

\* after an iteration an unobserved cell holds an estimate that differs
\* from the value the caller passed there
C6_Witness ==
    /\ pc = "loop"
    /\ itercount >= 1
    /\ \E c \in Cells \ Observed :
          At(X, c) # At(cfg.X, c) /\ At(X, c) = At(Xest, c)

\* a configuration the caller should not pass
InvalidConfig ==
    \/ cfg.rank < 0
    \/ cfg.max_iter <= 0
    \/ MaxShift0 <= 0
    \/ MaxShift1 <= 0

\* C7: a call with a negative rank, a max_iter below one or a shift bound
\* that is not positive performs no update and does not return normally.
C7_InvalidConfigRejected ==
    InvalidConfig => pc = "loop" /\ itercount = 0

\* C8: the activations of one parallel shift update share no mutable state:
\* each reads from the scratch vector what it stored there itself, and each
\* returns what a sequential run over the same candidates returns.
C8_RaceFree ==
    pc = "par" =>
        \A i \in DOMAIN wk :
            /\ wk[i].ph = "accum" =>
                  Ww = OwnScratch(ArgsOf(i), wk[i].s, wk[i].m)
            /\ wk[i].ph \in {"ret", "done"} /\ cfg.warp_iterations >= 1 =>
                  wk[i].best_shift = fit_shift(ArgsOf(i), wk[i].cands)

\* C9: once the update of a factor row has been made in a pass, the row is
\* not entirely near zero, for u[r], v[r] and w[r] alike.
C9_NoDegenerateRow ==
    ~Raised =>
        \A r \in Updated :
            /\ Visited(r, 0) => ~NearZero(u[r])
            /\ Visited(r, 1) => ~NearZero(v[r])
            /\ Visited(r, 2) => ~NearZero(w[r])

\* the shifts a search seeded with seed can store
SearchValues(seed, max_shift, n_iter) ==
    IF n_iter <= 0 THEN {0}
    ELSE IF n_iter = 1 THEN {seed}
    ELSE {seed} \cup CandSet(max_shift)

\* the component whose group q is visited by the step
Stepped(q) == {z \div 5 : z \in {y \in todo \ todo' : y % 5 = q}}

\* C10: during the first outer iteration the shifts keep the caller's
\* values, and a visit of a shift group changes no factor; from the second
\* iteration on a visit of a shift group stores, at every index of its
\* axis, the seed (the current shift) or a candidate within the bound, and
\* leaves the other axis and the factors alone.
C10_ShiftsFrozenThenSearched ==
    /\ [](itercount = 0 \/ (itercount = 1 /\ pc = "loop")
             => u_s = cfg.u_s /\ v_s = cfg.v_s)
    /\ [][pc = "inner" /\ Stepped(3) \cup Stepped(4) # {}
             => UNCHANGED <<u, v, w>>]_vars
    /\ [][pc = "inner" /\ itercount > 0 =>
             /\ \A r \in Stepped(3) :
                   /\ v_s' = v_s
                   /\ \A q \in Rs \ {r} : u_s'[q] = u_s[q]
                   /\ \A n \in Ns :
                         u_s'[r][n] \in SearchValues(u_s[r][n], MaxShift0,
                                                     cfg.warp_iterations)
             /\ \A r \in Stepped(4) :
                   /\ u_s' = u_s
                   /\ \A q \in Rs \ {r} : v_s'[q] = v_s[q]
                   /\ \A k \in Ks :
                         v_s'[r][k] \in SearchValues(v_s[r][k], MaxShift1,
                                                     cfg.warp_iterations)]_vars

\* the first pass of a call that asks for a search of several candidates
\* has visited both shift groups of component 0
C10_Witness ==
    /\ itercount = 0
    /\ pc = "inner"
    /\ cfg.rank >= 1
    /\ cfg.warp_iterations >= 2
    /\ MaxShift0 >= 1
    /\ todo \cap {3, 4} = {}

====
